---- MODULE Spec2Model ----
(***************************************************************************)
(* A model of api/server.js, the OpenAI -> NVIDIA NIM proxy: the request   *)
(* handler (routing, model selection with probe and tier fallback, the     *)
(* primary backend call) and the streaming transducer registered on the    *)
(* backend's response stream.                                              *)
(*                                                                         *)
(* Text is modelled as a sequence of units.  A unit is either one          *)
(* character (a letter, a quote, a bracket, the line feed) or a run of     *)
(* ASCII characters that the program never looks into (a JSON key with     *)
(* its colon, the "data: " prefix, the "[DONE]" payload, a marker tag).    *)
(* Bytes on the wire are units too: an ASCII unit is its own bytes, and    *)
(* the two-byte character e-acute arrives as the bytes C3 A9.              *)
(***************************************************************************)
EXTENDS Naturals, Sequences, FiniteSets, TLC

(***************************************************************************)
(* Units of text                                                           *)
(***************************************************************************)
LF == "\n"
DATA == "data: "
DONE == "[DONE]"
QT == "\""
ESC_N == "\\n"
SP == " "
NULL == "null"
EACUTE == "e'"
FFFD == "U+FFFD"
LEAD == "0xC3"
CONT == "0xA9"
THINK_OPEN == "<think>"
THINK_CLOSE == "</think>"
K_choices == "\"choices\":"
K_delta == "\"delta\":"
K_message == "\"message\":"
K_content == "\"content\":"
K_reasoning == "\"reasoning_content\":"
K_id == "\"id\":"
KeyUnits == {K_choices, K_delta, K_message, K_content, K_reasoning, K_id}

\* F applied to the value of e, which is computed once.
Bind(e, F(_)) == CHOOSE y \in { F(v) : v \in {e} } : TRUE

(***************************************************************************)
(* chunk.toString(): UTF-8 decoding of one Buffer on its own.  A lead byte *)
(* followed by its continuation byte is one character; a lead byte with    *)
(* nothing valid after it, or a continuation byte with no lead before it,  *)
(* decodes to U+FFFD.  ASCII is unchanged.                                 *)
(***************************************************************************)
\* What the byte at position i of the chunk contributes to the decoded text:
\* a continuation byte taken by the lead byte before it contributes nothing.
decodeAt(c, i) ==
    IF c[i] = LEAD
    THEN IF i < Len(c) /\ c[i + 1] = CONT THEN <<EACUTE>> ELSE <<FFFD>>
    ELSE IF c[i] = CONT
         THEN IF i > 1 /\ c[i - 1] = LEAD THEN <<>> ELSE <<FFFD>>
         ELSE <<c[i]>>

RECURSIVE Flatten(_)
Flatten(ss) == IF ss = <<>> THEN <<>> ELSE Head(ss) \o Flatten(Tail(ss))

toString(chunk) ==
    Bind(chunk, LAMBDA c :
        LET parts == SelectSeq([i \in 1..Len(c) |-> decodeAt(c, i)], LAMBDA u : u # <<>>)
        IN  [i \in 1..Len(parts) |-> parts[i][1]])

\* The bytes of a text (what the backend puts on the wire).
Utf8(text) ==
    Flatten([i \in 1..Len(text) |-> IF text[i] = EACUTE THEN <<LEAD, CONT>> ELSE <<text[i]>>])

(***************************************************************************)
(* buffer.split('\n'): the fragments between line feeds, the last one      *)
(* being what follows the final line feed (possibly empty).                *)
(***************************************************************************)
split(s0) ==
    Bind(s0, LAMBDA s :
        LET at == SelectSeq([i \in 1..Len(s) |-> i], LAMBDA i : s[i] = LF)
        IN  [k \in 1..(Len(at) + 1) |->
                SubSeq(s, IF k = 1 THEN 1 ELSE at[k - 1] + 1,
                          IF k <= Len(at) THEN at[k] - 1 ELSE Len(s))])

\* A faulty variant of Front: the last fragment is kept among the lines.
FrontKeepsLast(s) == s

\* lines after lines.pop(), and what pop() returned.
Front(s) == SubSeq(s, 1, Len(s) - 1)
Last(s) == s[Len(s)]

(***************************************************************************)
(* JSON values: a tag and a payload.  An object is the sequence of its     *)
(* members in insertion order, as JSON.stringify walks them.               *)
(***************************************************************************)
Undef == [t |-> "undef", v |-> <<>>]
Null == [t |-> "null", v |-> <<>>]
Str(s) == [t |-> "str", v |-> s]
\* A number, by its digits.
Num(s) == [t |-> "num", v |-> s]
Arr(e) == [t |-> "arr", v |-> e]
Obj(m) == [t |-> "obj", v |-> m]

HasKey(o, k) == o.t = "obj" /\ \E i \in 1..Len(o.v) : o.v[i].k = k

\* o.k : a property read.  Reading a property of a non-object gives undefined.
Get(o, k) ==
    IF HasKey(o, k)
    THEN o.v[CHOOSE i \in 1..Len(o.v) : o.v[i].k = k].x
    ELSE Undef

\* o.k = x : an existing key keeps its place, a new one goes last.
SetProp(o, k, x) ==
    IF HasKey(o, k)
    THEN Obj([i \in 1..Len(o.v) |-> IF o.v[i].k = k THEN [k |-> k, x |-> x] ELSE o.v[i]])
    ELSE Obj(Append(o.v, [k |-> k, x |-> x]))

\* delete o.k
DeleteProp(o, k) == Obj(SelectSeq(o.v, LAMBDA m : m.k # k))

\* a[0] / "abc"[0] : the first element, undefined when there is none.
Index0(a) ==
    IF a.t = "arr" /\ Len(a.v) > 0 THEN a.v[1]
    ELSE IF a.t = "str" /\ Len(a.v) > 0 THEN Str(<<a.v[1]>>)
    ELSE Undef

\* JavaScript truthiness.
Truthy(x) ==
    CASE x.t = "str" -> x.v # <<>>
      [] x.t = "num" -> x.v # <<"0">>
      [] x.t \in {"null", "undef"} -> FALSE
      [] OTHER -> TRUE

(***************************************************************************)
(* JSON.parse: a recursive-descent parser over units.  A result is         *)
(* [ok, val, rest]; white space between tokens is skipped; the whole text  *)
(* must be consumed.                                                       *)
(***************************************************************************)
Fail == [ok |-> FALSE, val |-> Undef, rest |-> <<>>]
Ok(val, rest) == [ok |-> TRUE, val |-> val, rest |-> rest]

RECURSIVE SkipWs(_)
SkipWs(ts) == IF ts # <<>> /\ Head(ts) = SP THEN SkipWs(Tail(ts)) ELSE ts

RECURSIVE ParseChars(_, _)
ParseChars(ts, acc) ==
    IF ts = <<>> THEN Fail
    ELSE IF Head(ts) = QT THEN Ok(Str(acc), Tail(ts))
    ELSE IF Head(ts) = ESC_N THEN ParseChars(Tail(ts), Append(acc, LF))
    ELSE IF Head(ts) \in KeyUnits \cup {LF} THEN Fail
    ELSE ParseChars(Tail(ts), Append(acc, Head(ts)))

RECURSIVE ParseValue(_)
RECURSIVE ParseMembers(_, _)
RECURSIVE ParseElements(_, _)

ParseValue(ts0) ==
    LET ts == SkipWs(ts0) IN
    IF ts = <<>> THEN Fail
    ELSE IF Head(ts) = NULL THEN Ok(Null, Tail(ts))
    ELSE IF Head(ts) = QT THEN ParseChars(Tail(ts), <<>>)
    ELSE IF Head(ts) = "["
         THEN LET r == SkipWs(Tail(ts)) IN
              IF r # <<>> /\ Head(r) = "]" THEN Ok(Arr(<<>>), Tail(r))
              ELSE ParseElements(r, <<>>)
    ELSE IF Head(ts) = "{"
         THEN LET r == SkipWs(Tail(ts)) IN
              IF r # <<>> /\ Head(r) = "}" THEN Ok(Obj(<<>>), Tail(r))
              ELSE ParseMembers(r, Obj(<<>>))
    ELSE Fail

ParseElements(ts, acc) ==
    Bind(ParseValue(ts), LAMBDA e :
        IF ~e.ok THEN Fail
        ELSE LET r == SkipWs(e.rest) IN
             IF r = <<>> THEN Fail
             ELSE IF Head(r) = "]" THEN Ok(Arr(Append(acc, e.val)), Tail(r))
             ELSE IF Head(r) = "," THEN ParseElements(Tail(r), Append(acc, e.val))
             ELSE Fail)

ParseMembers(ts0, acc) ==
    LET ts == SkipWs(ts0) IN
    IF ts = <<>> \/ Head(ts) \notin KeyUnits THEN Fail
    ELSE Bind(ParseValue(Tail(ts)), LAMBDA e :
             IF ~e.ok THEN Fail
             ELSE LET r == SkipWs(e.rest)
                      o == SetProp(acc, Head(ts), e.val) IN
                  IF r = <<>> THEN Fail
                  ELSE IF Head(r) = "}" THEN Ok(o, Tail(r))
                  ELSE IF Head(r) = "," THEN ParseMembers(Tail(r), o)
                  ELSE Fail)

JSONparse(ts) ==
    Bind(ParseValue(ts), LAMBDA p : IF p.ok /\ SkipWs(p.rest) = <<>> THEN p ELSE Fail)

(***************************************************************************)
(* JSON.stringify: compact, members in insertion order, a line feed inside *)
(* a string written as the escape \n.                                      *)
(***************************************************************************)
RECURSIVE EscapeChars(_)
EscapeChars(s) ==
    IF s = <<>> THEN <<>>
    ELSE <<IF Head(s) = LF THEN ESC_N ELSE Head(s)>> \o EscapeChars(Tail(s))

RECURSIVE JSONstringify(_)
RECURSIVE StringifyList(_, _, _)

StringifyList(items, i, isObj) ==
    IF i > Len(items) THEN <<>>
    ELSE (IF i > 1 THEN <<",">> ELSE <<>>)
         \o (IF isObj THEN <<items[i].k>> \o JSONstringify(items[i].x)
                      ELSE JSONstringify(items[i]))
         \o StringifyList(items, i + 1, isObj)

JSONstringify(x) ==
    CASE x.t = "str" -> <<QT>> \o EscapeChars(x.v) \o <<QT>>
      [] x.t = "arr" -> <<"[">> \o StringifyList(x.v, 1, FALSE) \o <<"]">>
      [] x.t = "obj" -> <<"{">> \o StringifyList(x.v, 1, TRUE) \o <<"}">>
      [] OTHER -> <<NULL>>

(***************************************************************************)
(* The per-line body of lines.forEach (server.js 139-187)                  *)
(***************************************************************************)
\* s.includes(sub) and s.startsWith(p) of String.
includes(s, sub) ==
    \E i \in 0..Len(s) : i + Len(sub) <= Len(s) /\ SubSeq(s, i + 1, i + Len(sub)) = sub

startsWith(s, p) == Len(s) >= Len(p) /\ SubSeq(s, 1, Len(p)) = p

\* A faulty variant of isDataLine: the prefix is looked for anywhere.
isDataLineAnywhere(line) == includes(line, <<DATA>>)

\* line.startsWith('data: ')
isDataLine(line) == startsWith(line, <<DATA>>)

\* line.includes('[DONE]')
isDone(line) == includes(line, <<DONE>>)

\* A faulty variant of rawFrame: the line is dropped.
rawFrameDropped(line) == <<>>

\* res.write(line + '\n') : the sentinel branch and the catch branch.
rawFrame(line) == <<line \o <<LF>>>>

\* res.write(`data: ${JSON.stringify(data)}\n\n`)
eventFrame(data) == <<<<DATA>> \o JSONstringify(data) \o <<LF, LF>>>>

\* String concatenation with a field value (a string in the backend's schema).
Text(x) == IF x.t = "str" THEN x.v ELSE <<"[object Object]">>

\* A faulty variant of spliceShow: the closing marker is left out.
spliceShowNoClose(delta, reasoningStarted) ==
    LET reasoning == Get(delta, K_reasoning)
        content == Get(delta, K_content)
        c1 == IF Truthy(reasoning) /\ ~reasoningStarted
              THEN <<THINK_OPEN, LF>> \o Text(reasoning)
              ELSE IF Truthy(reasoning) THEN Text(reasoning) ELSE <<>>
        combinedContent == IF Truthy(content) THEN c1 \o Text(content) ELSE c1
    IN  [delta |-> IF combinedContent # <<>>
                   THEN DeleteProp(SetProp(delta, K_content, Str(combinedContent)), K_reasoning)
                   ELSE delta,
         rs |-> reasoningStarted \/ Truthy(reasoning)]

\* A faulty variant of spliceShow: reasoningStarted is not reset by content.
spliceShowStaysOpen(delta, reasoningStarted) ==
    LET reasoning == Get(delta, K_reasoning)
        content == Get(delta, K_content)
        c1 == IF Truthy(reasoning) /\ ~reasoningStarted
              THEN <<THINK_OPEN, LF>> \o Text(reasoning)
              ELSE IF Truthy(reasoning) THEN Text(reasoning) ELSE <<>>
        rs1 == reasoningStarted \/ Truthy(reasoning)
        combinedContent ==
              IF Truthy(content) /\ rs1
              THEN c1 \o <<THINK_CLOSE, LF, LF>> \o Text(content)
              ELSE IF Truthy(content) THEN c1 \o Text(content) ELSE c1
    IN  [delta |-> IF combinedContent # <<>>
                   THEN DeleteProp(SetProp(delta, K_content, Str(combinedContent)), K_reasoning)
                   ELSE delta,
         rs |-> rs1]

\* SHOW_REASONING branch (152-172): the new delta and reasoningStarted.
spliceShow(delta, reasoningStarted) ==
    LET reasoning == Get(delta, K_reasoning)
        content == Get(delta, K_content)
        c1 == IF Truthy(reasoning) /\ ~reasoningStarted
              THEN <<THINK_OPEN, LF>> \o Text(reasoning)
              ELSE IF Truthy(reasoning) THEN Text(reasoning) ELSE <<>>
        rs1 == IF Truthy(reasoning) /\ ~reasoningStarted THEN TRUE ELSE reasoningStarted
        combinedContent ==
              IF Truthy(content) /\ rs1
              THEN c1 \o <<THINK_CLOSE, LF, LF>> \o Text(content)
              ELSE IF Truthy(content) THEN c1 \o Text(content) ELSE c1
        rs2 == IF Truthy(content) /\ rs1 THEN FALSE ELSE rs1
    IN  [delta |-> IF combinedContent # <<>>
                   THEN DeleteProp(SetProp(delta, K_content, Str(combinedContent)), K_reasoning)
                   ELSE delta,
         rs |-> rs2]

\* else branch (173-180): content kept or set to '', reasoning_content deleted.
spliceHide(delta, reasoningStarted) ==
    LET content == Get(delta, K_content)
    IN  [delta |-> DeleteProp(SetProp(delta, K_content,
                                      IF Truthy(content) THEN content ELSE Str(<<>>)),
                              K_reasoning),
         rs |-> reasoningStarted]

\* data.choices?.[0]
firstChoice(data) ==
    LET choices == Get(data, K_choices)
    IN  IF choices.t \in {"null", "undef"} THEN Undef ELSE Index0(choices)

\* data.choices?.[0]?.delta
firstDelta(data) ==
    LET c == firstChoice(data)
    IN  IF c.t \in {"null", "undef"} THEN Undef ELSE Get(c, K_delta)

\* data with data.choices[0].delta replaced by d.
withDelta(data, d) ==
    LET choices == Get(data, K_choices)
        c == SetProp(choices.v[1], K_delta, d)
    IN  SetProp(data, K_choices, Arr([choices.v EXCEPT ![1] = c]))

\* The try block (146-182) on a parsed event.  A delta that is a string or an
\* array is truthy, but what is assigned to it never reaches JSON.stringify.
transform(data0, reasoningStarted, show) ==
    Bind(data0, LAMBDA data :
        LET delta == firstDelta(data)
        IN  IF Truthy(delta) /\ delta.t = "obj"
            THEN LET r == IF show THEN spliceShow(delta, reasoningStarted)
                                  ELSE spliceHide(delta, reasoningStarted)
                 IN  [data |-> withDelta(data, r.delta), rs |-> r.rs]
            ELSE [data |-> data, rs |-> reasoningStarted])

\* JSON.parse(line.slice(6)) followed by the read of data.choices: a syntax
\* error, or a TypeError on null, lands in the catch.
throws(line) ==
    Bind(JSONparse(Tail(line)), LAMBDA p : ~p.ok \/ p.val.t = "null")

\* One line of lines.forEach: the frames written and the new reasoningStarted.
processLine(line, reasoningStarted, show) ==
    IF ~isDataLine(line) THEN [out |-> <<>>, rs |-> reasoningStarted]
    ELSE IF isDone(line) THEN [out |-> rawFrame(line), rs |-> reasoningStarted]
    ELSE IF throws(line) THEN [out |-> rawFrame(line), rs |-> reasoningStarted]
    ELSE Bind(transform(JSONparse(Tail(line)).val, reasoningStarted, show),
              LAMBDA r : [out |-> eventFrame(r.data), rs |-> r.rs])

(***************************************************************************)
(* The 'data' handler (134-188) as a function of the stream's state: the   *)
(* chunk is decoded and appended, the buffer split, the last fragment      *)
(* kept, the complete lines processed in order.  written holds one record  *)
(* per res.write (src: the ordinal of the line it came from); trail holds  *)
(* one record per line processed.                                          *)
(***************************************************************************)
RECURSIVE forEach(_, _, _, _, _, _)
forEach(lines, i, rs, written, trail, show) ==
    IF i > Len(lines) THEN [rs |-> rs, written |-> written, trail |-> trail]
    ELSE Bind(processLine(lines[i], rs, show), LAMBDA r :
             forEach(lines, i + 1, r.rs,
                     written \o [k \in 1..Len(r.out) |->
                                    [src |-> Len(trail) + 1, text |-> r.out[k]]],
                     Append(trail, [line |-> lines[i], before |-> rs, after |-> r.rs]),
                     show))

onData(st, chunk, show) ==
    Bind(split(st.buffer \o toString(chunk)), LAMBDA lines :
        Bind(forEach(Front(lines), 1, st.rs, st.written, st.trail, show), LAMBDA r :
            [buffer |-> Last(lines), rs |-> r.rs, written |-> r.written, trail |-> r.trail]))

\* let buffer = ''; let reasoningStarted = false; (131-132)
Fresh == [buffer |-> <<>>, rs |-> FALSE, written |-> <<>>, trail |-> <<>>]

(***************************************************************************)
(* Configuration and model selection (server.js 9-23, 77-104)              *)
(***************************************************************************)
\* Inbound identifiers are sequences of characters; a backend identifier is
\* one unit, since the program only stores and forwards it.
gpt35turbo == <<"g", "p", "t", "-", "3", ".", "5", "-", "t", "u", "r", "b", "o">>
gpt4 == <<"g", "p", "t", "-", "4">>
gpt4turbo == <<"g", "p", "t", "-", "4", "-", "t", "u", "r", "b", "o">>
gpt4o == <<"g", "p", "t", "-", "4", "o">>
claude3opus == <<"c", "l", "a", "u", "d", "e", "-", "3", "-", "o", "p", "u", "s">>
claude3sonnet == <<"c", "l", "a", "u", "d", "e", "-", "3", "-", "s", "o", "n", "n", "e", "t">>
geminipro == <<"g", "e", "m", "i", "n", "i", "-", "p", "r", "o">>

MODEL_MAPPING ==
    (gpt35turbo :> <<"nvidia/llama-3.1-nemotron-ultra-253b-v1">>)
    @@ (gpt4 :> <<"qwen/qwen3-coder-480b-a35b-instruct">>)
    @@ (gpt4turbo :> <<"moonshotai/kimi-k2-instruct-0905">>)
    @@ (gpt4o :> <<"deepseek-ai/deepseek-v3.2">>)
    @@ (claude3opus :> <<"openai/gpt-oss-120b">>)
    @@ (claude3sonnet :> <<"openai/gpt-oss-20b">>)
    @@ (geminipro :> <<"qwen/qwen3-next-80b-a3b-thinking">>)

\* Names every object literal inherits from Object.prototype.
constructor == <<"c", "o", "n", "s", "t", "r", "u", "c", "t", "o", "r">>
Inherited == {constructor}
NativeFunction == <<"function Object() { [native code] }">>

LargeTier == <<"meta/llama-3.1-405b-instruct">>
MediumTier == <<"meta/llama-3.1-70b-instruct">>
SmallTier == <<"meta/llama-3.1-8b-instruct">>

\* A faulty variant of lookup: nothing is ever found.
lookupNothing(model) == <<>>

\* MODEL_MAPPING[model]: an own key, an inherited property, or undefined
\* (the empty sequence, falsy like undefined).
lookup(model) ==
    IF model \in DOMAIN MODEL_MAPPING THEN MODEL_MAPPING[model]
    ELSE IF model \in Inherited THEN NativeFunction
    ELSE <<>>

\* model.toLowerCase()
Lower == [c \in {"A", "B", "C", "G", "L", "M", "O", "P", "T"} |->
            CASE c = "A" -> "a" [] c = "B" -> "b" [] c = "C" -> "c"
              [] c = "G" -> "g" [] c = "L" -> "l" [] c = "M" -> "m"
              [] c = "O" -> "o" [] c = "P" -> "p" [] c = "T" -> "t"]

toLowerCase(s) == [i \in 1..Len(s) |-> IF s[i] \in DOMAIN Lower THEN Lower[s[i]] ELSE s[i]]

s_gpt4 == <<"g", "p", "t", "-", "4">>
s_claudeopus == <<"c", "l", "a", "u", "d", "e", "-", "o", "p", "u", "s">>
s_405b == <<"4", "0", "5", "b">>
s_claude == <<"c", "l", "a", "u", "d", "e">>
s_gemini == <<"g", "e", "m", "i", "n", "i">>
s_70b == <<"7", "0", "b">>

\* A faulty variant of tier: the medium tier is tested first.
tierMediumFirst(model) ==
    LET modelLower == toLowerCase(model)
    IN  IF includes(modelLower, s_claude) \/ includes(modelLower, s_gemini)
           \/ includes(modelLower, s_70b)
        THEN MediumTier
        ELSE IF includes(modelLower, s_gpt4) \/ includes(modelLower, s_claudeopus)
                \/ includes(modelLower, s_405b)
        THEN LargeTier
        ELSE SmallTier

\* The heuristic tier (94-103).
tier(model) ==
    LET modelLower == toLowerCase(model)
    IN  IF includes(modelLower, s_gpt4) \/ includes(modelLower, s_claudeopus)
           \/ includes(modelLower, s_405b)
        THEN LargeTier
        ELSE IF includes(modelLower, s_claude) \/ includes(modelLower, s_gemini)
                \/ includes(modelLower, s_70b)
        THEN MediumTier
        ELSE SmallTier

\* An axios call that rejects with no response (a network error).
NetworkError == 0

\* validateStatus: (status) => status < 500, given to the probe.
probeResolves(status) == status # NetworkError /\ status < 500

\* nimModel after the probe settled with `status` (87-103).
afterProbe(model, status) ==
    IF probeResolves(status) /\ status >= 200 /\ status < 300 THEN model
    ELSE tier(model)

(***************************************************************************)
(* Request and response transformers (107-114, 197-225, 238-247)           *)
(***************************************************************************)
\* x || d
orDefault(x, d) == IF Truthy(x) THEN x ELSE d

DefaultTemperature == Num(<<"0.6">>)
DefaultMaxTokens == Num(<<"9024">>)

\* const nimRequest = { model, messages, temperature, max_tokens, stream }
nimRequestFor(model, b) ==
    [model |-> model,
     messages |-> b.messages,
     temperature |-> orDefault(b.temperature, DefaultTemperature),
     max_tokens |-> orDefault(b.max_tokens, DefaultMaxTokens),
     stream |-> b.stream]

\* fullContent of one choice (203-207).
fullContent(message, show) ==
    LET content == orDefault(Get(message, K_content), Str(<<>>))
        reasoning == Get(message, K_reasoning)
    IN  IF show /\ Truthy(reasoning)
        THEN Str(<<THINK_OPEN, LF>> \o Text(reasoning) \o <<LF, THINK_CLOSE, LF, LF>>
                 \o Text(content))
        ELSE content

\* response.data.choices.map(...) throws when there is no choices array, and
\* choice.message.role (212) when a choice has no message.
mapThrows(data) ==
    LET choices == Get(data, K_choices)
    IN  \/ choices.t # "arr"
        \/ \E i \in 1..Len(choices.v) : Get(choices.v[i], K_message).t \in {"undef", "null"}

\* The content of each choice of openaiResponse (202-217).
openaiResponse(data, show) ==
    LET choices == Get(data, K_choices)
    IN  [i \in 1..Len(choices.v) |-> fullContent(Get(choices.v[i], K_message), show)]

\* An error with no response attached: a TypeError, or an axios call that
\* got no answer.
NoResponse == NetworkError

\* A faulty variant of errorStatus: the backend's status is ignored.
errorStatusAlways500(st) == 500

\* error.response?.status || 500
errorStatus(st) == IF st = NoResponse THEN 500 ELSE st

(***************************************************************************)
(* Bounds of the model                                                     *)
(***************************************************************************)
\* Most writes the backend makes on one response stream.
MaxSends == 3
\* Largest chunk delivered short of "all that is in flight".
MaxChunk == 3
\* Most writes the backend makes on each stream when several run at once.
MaxPairSends == 1

(***************************************************************************)
(* State.  Every variable is a function of the request: each invocation of *)
(* the handler has its own req, res and closure variables.                 *)
(***************************************************************************)
VARIABLES
    SHOW_REASONING,     \* the display toggle (line 9), fixed for the process
    method, url, body,  \* req.method, req.url, req.body
    pc,                 \* where the handler is: start, probe, primary, streaming, done
    nimModel,           \* let nimModel (77)
    calls,              \* the axios.post calls made, in order
    probe,              \* the statuses the probe settled with (at most one)
    nimRequest,         \* const nimRequest (107), once built
    response,           \* what the primary call settled with (117), once settled
    status, headers, sent,  \* res.status(), res.setHeader(), res.json() so far
    backend,            \* the frames the backend may write on a response stream
    input, pos,         \* the bytes the backend wrote so far, and how many were delivered
    sends,              \* the writes the backend made so far
    upstream,           \* response.data: none, flowing, ended, errored
    buffer, reasoningStarted,   \* the closure variables of the stream (131-132)
    written, trail,     \* res.write() calls so far; the lines forEach has processed
    endCalls            \* res.end() calls so far

reqVars == <<method, url, body>>
flowVars == <<pc, nimModel, calls, probe>>
callVars == <<nimRequest, response>>
resVars == <<status, headers, sent>>
netVars == <<backend, input, sends>>
streamVars == <<pos, upstream, buffer, reasoningStarted, written, trail, endCalls>>
vars == <<SHOW_REASONING, reqVars, flowVars, callVars, resVars, netVars, streamVars>>

Requests == DOMAIN pc

(***************************************************************************)
(* Inputs                                                                  *)
(***************************************************************************)
Methods == {"GET", "POST", "OPTIONS"}

p_health == <<"/health">>
p_api == <<"/api">>
p_root == <<"/">>
p_models == <<"/v1/models">>
p_chat == <<"/v1/chat/completions">>
p_nope == <<"/nope">>
Paths == {p_health, p_api, p_api \o p_root, p_root, p_models, p_chat, p_api \o p_chat, p_nope}

UnknownModels ==
    { <<"m", "-", "4", "0", "5", "b">>,
      <<"M", "-", "4", "0", "5", "B">>,
      <<"l", "-", "7", "0", "b">>,
      <<"7", "0", "b", "-", "4", "0", "5", "b">>,
      <<"g", "p", "t", "-", "4", "-", "3", "2", "k">>,
      <<"g", "p", "t", "-", "4", "-", "7", "0", "b">>,
      <<"c", "l", "a", "u", "d", "e", "-", "2">>,
      <<"C", "l", "a", "u", "d", "e", "-", "O", "p", "u", "s">>,
      <<"g", "e", "m", "i", "n", "i">>,
      <<"t", "i", "n", "y">> }

Models == DOMAIN MODEL_MAPPING \cup Inherited \cup UnknownModels

\* The model of a body that has no model field: MODEL_MAPPING[undefined]
\* reads the key "undefined".
undefined == <<"undefined">>

Temperatures == {Undef, Num(<<"0">>), Num(<<"1">>)}
MaxTokens == {Undef, Num(<<"0">>), Num(<<"5">>)}
hello == Arr(<<Str(<<"h">>)>>)
Messages == {hello, Arr(<<Str(<<"h">>), Str(<<"i">>)>>)}

ReqBody(model, stream, temperature, max_tokens, messages) ==
    [present |-> TRUE, model |-> model, stream |-> stream, temperature |-> temperature,
     max_tokens |-> max_tokens, messages |-> messages]

\* req.body is undefined.
NoBody ==
    [present |-> FALSE, model |-> undefined, stream |-> FALSE, temperature |-> Undef,
     max_tokens |-> Undef, messages |-> Undef]

Bodies ==
    {NoBody}
    \cup {ReqBody(m, st, Undef, Undef, hello) : m \in Models \cup {undefined}, st \in BOOLEAN}
    \cup {ReqBody(gpt4, FALSE, t, k, ms) : t \in Temperatures, k \in MaxTokens, ms \in Messages}

\* A member of an object.
Member(k, x) == [k |-> k, x |-> x]

\* response.data of a call made with responseType 'stream'.
Readable == [t |-> "stream", v |-> <<>>]

\* What the backend answers a call made with responseType 'json'.
Reply(choices) == Obj(<<Member(K_choices, Arr(choices))>>)
MessageChoice(members) == Obj(<<Member(K_message, Obj(members))>>)
R_both ==
    Reply(<<MessageChoice(<<Member(K_reasoning, Str(<<"a">>)), Member(K_content, Str(<<"c">>))>>)>>)
R_content == Reply(<<MessageChoice(<<Member(K_content, Str(<<"c">>))>>)>>)
R_reasoning ==
    Reply(<<MessageChoice(<<Member(K_reasoning, Str(<<"a">>)), Member(K_content, Null)>>)>>)
R_nochoices == Obj(<<Member(K_id, Str(<<"x">>))>>)
R_nomessage == Reply(<<Obj(<<Member(K_id, Str(<<"x">>))>>)>>)
Replies == {R_both, R_content, R_reasoning, R_nochoices, R_nomessage}

\* What the probe can settle with: 2xx, 3xx, 4xx, 5xx, or no response at all.
ProbeOutcomes == {200, 304, 404, 503, NetworkError}
\* What the primary call can settle with.
PrimaryOutcomes == {200, 400, 404, 500, NetworkError}

DeltaChoice(members) == Obj(<<Member(K_delta, Obj(members))>>)
\* One server-sent event of the backend, as bytes: data: {"choices":[...]} and a
\* blank line.
EventFrame(choices) ==
    Utf8(<<DATA>> \o JSONstringify(Obj(<<Member(K_choices, Arr(choices))>>)) \o <<LF, LF>>)

F_reasoning == EventFrame(<<DeltaChoice(<<Member(K_reasoning, Str(<<"a">>))>>)>>)
F_reasoning2 ==
    EventFrame(<<DeltaChoice(<<Member(K_content, Null), Member(K_reasoning, Str(<<"b">>))>>)>>)
F_content == EventFrame(<<DeltaChoice(<<Member(K_content, Str(<<EACUTE>>))>>)>>)
F_both ==
    EventFrame(<<DeltaChoice(<<Member(K_reasoning, Str(<<"a">>)), Member(K_content, Str(<<"c">>))>>)>>)
F_empty ==
    EventFrame(<<DeltaChoice(<<Member(K_reasoning, Str(<<>>)), Member(K_content, Str(<<>>))>>)>>)
F_two ==
    EventFrame(<<DeltaChoice(<<Member(K_content, Str(<<"c">>))>>),
                 DeltaChoice(<<Member(K_reasoning, Str(<<"a">>))>>)>>)
F_done == <<DATA, DONE, LF, LF>>
F_truncated == <<DATA, "{", K_choices, "[", LF, LF>>
F_null == <<DATA, NULL, LF, LF>>
F_comment == <<":", SP, DATA, DONE, LF>>
F_nodelta == <<DATA, "{", K_id, SP, QT, "x", QT, "}", LF, LF>>

\* The sentinel and an event with no line feed after them.
F_tailDone == <<DATA, DONE>>
F_tailEvent ==
    Utf8(<<DATA>> \o JSONstringify(Obj(<<Member(K_choices,
            Arr(<<DeltaChoice(<<Member(K_content, Str(<<"c">>))>>)>>))>>)))

DeltaFrames == {F_reasoning, F_reasoning2, F_content, F_both, F_empty, F_two}
FramingFrames == {F_reasoning, F_content, F_done, F_truncated, F_null, F_comment, F_nodelta}
SmokeFrames == {F_both}
\* One event in a write, or two.
PairFrames == {F_reasoning, F_both \o F_reasoning}
TailFrames == {F_reasoning, F_done, F_tailDone, F_tailEvent}

(***************************************************************************)
(* Initial states                                                          *)
(***************************************************************************)
corsHeaders ==
    {"Access-Control-Allow-Origin", "Access-Control-Allow-Methods",
     "Access-Control-Allow-Headers"}
streamHeaders == {"Content-Type", "Cache-Control", "Connection"}

NoStream(R) ==
    /\ input = [r \in R |-> <<>>]
    /\ pos = [r \in R |-> 0]
    /\ sends = [r \in R |-> 0]
    /\ upstream = [r \in R |-> "none"]
    /\ buffer = [r \in R |-> <<>>]
    /\ reasoningStarted = [r \in R |-> FALSE]
    /\ written = [r \in R |-> <<>>]
    /\ trail = [r \in R |-> <<>>]
    /\ endCalls = [r \in R |-> 0]

\* One request arrives; nothing has run yet.
Init ==
    /\ SHOW_REASONING \in BOOLEAN
    /\ method \in [{1} -> Methods]
    /\ url \in [{1} -> Paths]
    /\ body \in [{1} -> Bodies]
    /\ pc = [r \in {1} |-> "start"]
    /\ nimModel = [r \in {1} |-> <<>>]
    /\ calls = [r \in {1} |-> <<>>]
    /\ probe = [r \in {1} |-> <<>>]
    /\ nimRequest = [r \in {1} |-> <<>>]
    /\ response = [r \in {1} |-> <<>>]
    /\ status = [r \in {1} |-> 0]
    /\ headers = [r \in {1} |-> {}]
    /\ sent = [r \in {1} |-> <<>>]
    /\ backend = SmokeFrames
    /\ NoStream({1})

\* A streaming request for a mapped model, at the point where the primary
\* call has resolved and the stream handlers are registered (127-132).
StreamsOf(R, frames) ==
    /\ SHOW_REASONING \in BOOLEAN
    /\ method = [r \in R |-> "POST"]
    /\ url = [r \in R |-> p_chat]
    /\ body = [r \in R |-> ReqBody(gpt4, TRUE, Undef, Undef, hello)]
    /\ pc = [r \in R |-> "streaming"]
    /\ nimModel = [r \in R |-> MODEL_MAPPING[gpt4]]
    /\ calls = [r \in R |-> <<[kind |-> "primary", model |-> MODEL_MAPPING[gpt4], stream |-> TRUE]>>]
    /\ probe = [r \in R |-> <<>>]
    /\ nimRequest = [r \in R |->
            <<nimRequestFor(MODEL_MAPPING[gpt4], ReqBody(gpt4, TRUE, Undef, Undef, hello))>>]
    /\ response = [r \in R |-> <<[status |-> 200, data |-> Readable]>>]
    /\ status = [r \in R |-> 0]
    /\ headers = [r \in R |-> corsHeaders \cup streamHeaders]
    /\ sent = [r \in R |-> <<>>]
    /\ backend = frames
    /\ input = [r \in R |-> <<>>]
    /\ pos = [r \in R |-> 0]
    /\ sends = [r \in R |-> 0]
    /\ upstream = [r \in R |-> "flowing"]
    /\ buffer = [r \in R |-> <<>>]
    /\ reasoningStarted = [r \in R |-> FALSE]
    /\ written = [r \in R |-> <<>>]
    /\ trail = [r \in R |-> <<>>]
    /\ endCalls = [r \in R |-> 0]

StreamingFrom(frames) == StreamsOf({1}, frames)

\* The state in which the primary call has resolved with a stream.
InitDeltas == StreamingFrom(DeltaFrames)
InitFraming == StreamingFrom(FramingFrames)
InitTail == StreamingFrom(TailFrames)
\* Two streaming requests at once.
InitPair == StreamsOf({1, 2}, PairFrames)

(***************************************************************************)
(* The request handler (33-248), one action per path through it up to the  *)
(* next await or the response.                                             *)
(***************************************************************************)
\* const path = req.url || '/'
pathOf(u) == IF u = <<>> THEN p_root ELSE u

isHealth(path) == includes(path, p_health) \/ path = p_api \/ path = p_api \o p_root
isModels(path) == includes(path, p_models)
\* A faulty variant of isChat: every path is the chat path.
isChatAlways(path) == TRUE

isChat(path) == includes(path, p_chat)

Body(kind, code, message, data) ==
    [kind |-> kind, code |-> code, message |-> message, data |-> data]

\* res.status(code).json(b)
Respond(r, code, b) ==
    /\ status' = [status EXCEPT ![r] = code]
    /\ sent' = [sent EXCEPT ![r] = Append(@, b)]
    /\ pc' = [pc EXCEPT ![r] = "done"]

\* The error envelope of the 404 branch and of the catch (229-247).
Envelope(code, message) == Body("error", code, message, {})

\* One axios.post to the backend's chat-completion endpoint.
Call(kind, model, stream) == [kind |-> kind, model |-> model, stream |-> stream]

\* if (req.method === 'OPTIONS') return res.status(200).json({ ok: true })
Options(r) ==
    /\ pc[r] = "start"
    /\ method[r] = "OPTIONS"
    /\ Respond(r, 200, Body("ok", 0, <<>>, {}))
    /\ UNCHANGED <<SHOW_REASONING, reqVars, callVars, nimModel, calls, probe, headers, netVars, streamVars>>

Health(r) ==
    /\ pc[r] = "start"
    /\ method[r] # "OPTIONS"
    /\ isHealth(pathOf(url[r]))
    /\ headers' = [headers EXCEPT ![r] = @ \cup corsHeaders]
    /\ Respond(r, 200, Body("health", 0, <<>>, {}))
    /\ UNCHANGED <<SHOW_REASONING, reqVars, callVars, nimModel, calls, probe, netVars, streamVars>>

ListModels(r) ==
    /\ pc[r] = "start"
    /\ method[r] # "OPTIONS"
    /\ ~isHealth(pathOf(url[r]))
    /\ isModels(pathOf(url[r]))
    /\ headers' = [headers EXCEPT ![r] = @ \cup corsHeaders]
    /\ Respond(r, 200, Body("list", 0, <<>>, DOMAIN MODEL_MAPPING))
    /\ UNCHANGED <<SHOW_REASONING, reqVars, callVars, nimModel, calls, probe, netVars, streamVars>>

NotFound(r) ==
    /\ pc[r] = "start"
    /\ method[r] # "OPTIONS"
    /\ ~isHealth(pathOf(url[r]))
    /\ ~isModels(pathOf(url[r]))
    /\ ~(isChat(pathOf(url[r])) /\ method[r] = "POST")
    /\ headers' = [headers EXCEPT ![r] = @ \cup corsHeaders]
    /\ Respond(r, 404, Envelope(404, <<"Endpoint ">> \o pathOf(url[r]) \o <<" not found">>))
    /\ UNCHANGED <<SHOW_REASONING, reqVars, callVars, nimModel, calls, probe, netVars, streamVars>>

\* catch (error) (238-247): the envelope, with error.response?.status || 500.
Catch(r, st, message) ==
    Respond(r, errorStatus(st), Envelope(errorStatus(st), message))

\* The chat branch up to its first await (73-80 or 73-117): the body is
\* destructured (a TypeError when there is none), then the lookup, then the
\* probe when the lookup gave nothing, else the primary call.
ChatStart(r) ==
    /\ pc[r] = "start"
    /\ method[r] = "POST"
    /\ ~isHealth(pathOf(url[r]))
    /\ ~isModels(pathOf(url[r]))
    /\ isChat(pathOf(url[r]))
    /\ headers' = [headers EXCEPT ![r] = @ \cup corsHeaders]
    /\ IF ~body[r].present
       THEN /\ Catch(r, NoResponse, <<"TypeError">>)
            /\ UNCHANGED <<nimModel, calls, nimRequest>>
       ELSE \E m \in {lookup(body[r].model)} :
            /\ nimModel' = [nimModel EXCEPT ![r] = m]
            /\ IF m = <<>>
               THEN /\ calls' = [calls EXCEPT ![r] = Append(@, Call("probe", body[r].model, FALSE))]
                    /\ pc' = [pc EXCEPT ![r] = "probe"]
                    /\ UNCHANGED nimRequest
               ELSE /\ calls' = [calls EXCEPT ![r] = Append(@, Call("primary", m, body[r].stream))]
                    /\ nimRequest' = [nimRequest EXCEPT ![r] = Append(@, nimRequestFor(m, body[r]))]
                    /\ pc' = [pc EXCEPT ![r] = "primary"]
            /\ UNCHANGED <<status, sent>>
    /\ UNCHANGED <<SHOW_REASONING, reqVars, response, probe, netVars, streamVars>>

\* The probe settles (87-104); the primary call follows (107-117).  With no
\* model in the body nimModel stays undefined whatever the probe says, and
\* model.toLowerCase() (95) throws.
ProbeSettles(r) ==
    /\ pc[r] = "probe"
    /\ \E st \in ProbeOutcomes :
        /\ probe' = [probe EXCEPT ![r] = Append(@, st)]
        /\ IF body[r].model = undefined
           THEN /\ Catch(r, NoResponse, <<"TypeError">>)
                /\ UNCHANGED <<nimModel, calls, nimRequest>>
           ELSE \E m \in {afterProbe(body[r].model, st)} :
                /\ nimModel' = [nimModel EXCEPT ![r] = m]
                /\ calls' = [calls EXCEPT ![r] = Append(@, Call("primary", m, body[r].stream))]
                /\ nimRequest' = [nimRequest EXCEPT ![r] = Append(@, nimRequestFor(m, body[r]))]
                /\ pc' = [pc EXCEPT ![r] = "primary"]
                /\ UNCHANGED <<status, sent>>
    /\ UNCHANGED <<SHOW_REASONING, reqVars, response, headers, netVars, streamVars>>

\* The primary call resolves and stream is set (125-194): the event-stream
\* headers, the fresh closure variables, the handlers registered.
PrimaryStreams(r) ==
    /\ pc[r] = "primary"
    /\ body[r].stream
    /\ response' = [response EXCEPT ![r] = Append(@, [status |-> 200, data |-> Readable])]
    /\ headers' = [headers EXCEPT ![r] = @ \cup streamHeaders]
    /\ upstream' = [upstream EXCEPT ![r] = "flowing"]
    /\ buffer' = [buffer EXCEPT ![r] = Fresh.buffer]
    /\ reasoningStarted' = [reasoningStarted EXCEPT ![r] = Fresh.rs]
    /\ pc' = [pc EXCEPT ![r] = "streaming"]
    /\ UNCHANGED <<SHOW_REASONING, reqVars, nimRequest, nimModel, calls, probe, status, sent,
                   netVars, pos, written, trail, endCalls>>

\* The primary call resolves and stream is not set (196-225); a response
\* the transformer cannot walk throws into the catch (238-247).
PrimaryAnswers(r) ==
    /\ pc[r] = "primary"
    /\ ~body[r].stream
    /\ \E reply \in Replies :
        /\ response' = [response EXCEPT ![r] = Append(@, [status |-> 200, data |-> reply])]
        /\ IF mapThrows(reply)
           THEN Catch(r, NoResponse, <<"TypeError">>)
           ELSE Respond(r, 200, Body("completion", 0, <<>>, openaiResponse(reply, SHOW_REASONING)))
    /\ UNCHANGED <<SHOW_REASONING, reqVars, nimRequest, nimModel, calls, probe, headers,
                   netVars, streamVars>>

\* The primary call rejects (238-247).
PrimaryFails(r) ==
    /\ pc[r] = "primary"
    /\ \E st \in PrimaryOutcomes \ {200} :
        /\ response' = [response EXCEPT ![r] = Append(@, [status |-> st, data |-> Undef])]
        /\ Catch(r, st, <<"AxiosError">>)
    /\ UNCHANGED <<SHOW_REASONING, reqVars, nimRequest, nimModel, calls, probe, headers,
                   netVars, streamVars>>

(***************************************************************************)
(* The stream handlers (134-194).  response.data is a Node Readable: it    *)
(* emits 'data' while flowing, then 'end' once the backend closed and      *)
(* everything was delivered, or 'error' at any moment, and nothing after   *)
(* either.                                                                 *)
(***************************************************************************)
Quota == IF Cardinality(Requests) > 1 THEN MaxPairSends ELSE MaxSends

\* The backend writes one more frame on the response stream.  At most a
\* chunk's worth of earlier bytes is still in flight when it does.
Send(r) ==
    /\ pc[r] = "streaming"
    /\ upstream[r] = "flowing"
    /\ sends[r] < Quota
    /\ Len(input[r]) - pos[r] < MaxChunk
    /\ \E f \in backend : input' = [input EXCEPT ![r] = @ \o f]
    /\ sends' = [sends EXCEPT ![r] = @ + 1]
    /\ UNCHANGED <<SHOW_REASONING, reqVars, callVars, flowVars, resVars, backend, streamVars>>

\* A faulty variant of closure: buffer and reasoningStarted declared once,
\* outside the handler.
closureShared(r) == 1

\* The invocation whose buffer and reasoningStarted (131-132) the 'data'
\* handler of request r closes over: its own.
closure(r) == r

\* response.data.on('data', ...) with the next n bytes as the chunk.
Deliver(r, n) ==
    LET st == [buffer |-> buffer[closure(r)], rs |-> reasoningStarted[closure(r)],
               written |-> written[r], trail |-> trail[r]]
        chunk == SubSeq(input[r], pos[r] + 1, pos[r] + n)
    IN  \E nx \in {onData(st, chunk, SHOW_REASONING)} :
        /\ pos' = [pos EXCEPT ![r] = @ + n]
        /\ buffer' = [buffer EXCEPT ![closure(r)] = nx.buffer]
        /\ reasoningStarted' = [reasoningStarted EXCEPT ![closure(r)] = nx.rs]
        /\ written' = [written EXCEPT ![r] = nx.written]
        /\ trail' = [trail EXCEPT ![r] = nx.trail]

OnData(r) ==
    /\ pc[r] = "streaming"
    /\ upstream[r] = "flowing"
    /\ pos[r] < Len(input[r])
    /\ \/ \E n \in 1..MaxChunk : pos[r] + n <= Len(input[r]) /\ Deliver(r, n)
       \/ Deliver(r, Len(input[r]) - pos[r])
    /\ UNCHANGED <<SHOW_REASONING, reqVars, callVars, flowVars, resVars, netVars, upstream, endCalls>>

\* response.data.on('end', () => res.end())
endHandler(n) == n + 1

OnEnd(r) ==
    /\ pc[r] = "streaming"
    /\ upstream[r] = "flowing"
    /\ pos[r] = Len(input[r])
    /\ upstream' = [upstream EXCEPT ![r] = "ended"]
    /\ endCalls' = [endCalls EXCEPT ![r] = endHandler(@)]
    /\ UNCHANGED <<SHOW_REASONING, reqVars, callVars, flowVars, resVars, netVars, pos, buffer,
                   reasoningStarted, written, trail>>

\* A faulty variant of errorHandler: res.end() is not called.
errorHandlerNoop(n) == n

\* response.data.on('error', (err) => { console.error(...); res.end(); })

errorHandler(n) == n + 1

OnError(r) ==
    /\ pc[r] = "streaming"
    /\ upstream[r] = "flowing"
    /\ upstream' = [upstream EXCEPT ![r] = "errored"]
    /\ endCalls' = [endCalls EXCEPT ![r] = errorHandler(@)]
    /\ UNCHANGED <<SHOW_REASONING, reqVars, callVars, flowVars, resVars, netVars, pos, buffer,
                   reasoningStarted, written, trail>>

NextStream ==
    \/ \E r \in Requests : Send(r)
    \/ \E r \in Requests : OnData(r)
    \/ \E r \in Requests : OnEnd(r)
    \/ \E r \in Requests : OnError(r)

Next ==
    \/ \E r \in Requests : Options(r)
    \/ \E r \in Requests : Health(r)
    \/ \E r \in Requests : ListModels(r)
    \/ \E r \in Requests : NotFound(r)
    \/ \E r \in Requests : ChatStart(r)
    \/ \E r \in Requests : ProbeSettles(r)
    \/ \E r \in Requests : PrimaryStreams(r)
    \/ \E r \in Requests : PrimaryAnswers(r)
    \/ \E r \in Requests : PrimaryFails(r)
    \/ NextStream

Spec == Init /\ [][Next]_vars
SpecDeltas == InitDeltas /\ [][NextStream]_vars
SpecFraming == InitFraming /\ [][NextStream]_vars
SpecTail == InitTail /\ [][NextStream]_vars
SpecPair == InitPair /\ [][NextStream]_vars

(***************************************************************************)
(* Properties                                                              *)
(***************************************************************************)
Streaming(r) == pc[r] = "streaming"

\* The bytes delivered to the 'data' handler so far, in one piece.
Delivered(r) == SubSeq(input[r], 1, pos[r])

\* The texts of a sequence of res.write records, and their concatenation.
Texts(w) == [k \in 1..Len(w) |-> w[k].text]
Output(w) == Flatten(Texts(w))

\* The outcome had everything delivered so far come as a single chunk.
Whole(r) == onData(Fresh, Delivered(r), SHOW_REASONING)

\* The complete lines of the bytes delivered so far.
InLines(r) == Front(split(Delivered(r)))

\* A text without its non-ASCII characters.
Plain(s) == SelectSeq(s, LAMBDA u : u \notin {EACUTE, FFFD, LEAD, CONT})

\* The indices of a sequence whose element satisfies P, in increasing order.
Where(s, P(_)) == SelectSeq([i \in 1..Len(s) |-> i], LAMBDA i : P(s[i]))

\* The event a written frame carries: its text between "data: " and the two
\* line feeds, parsed.
FrameEvent(text) == JSONparse(SubSeq(text, 2, Len(text) - 2)).val

\* The event a processed line carries.
LineEvent(line) == JSONparse(Tail(line)).val

\* A processed line that went through the try block without throwing.
IsEvent(line) == isDataLine(line) /\ ~isDone(line) /\ ~throws(line)

\* A processed line whose payload is not a JSON event (the catch branch).
IsMalformed(line) == isDataLine(line) /\ ~isDone(line) /\ throws(line)

HasDelta(line) == IsEvent(line) /\ Truthy(firstDelta(LineEvent(line)))

reasoningOf(line) == Get(firstDelta(LineEvent(line)), K_reasoning)
contentOf(line) == Get(firstDelta(LineEvent(line)), K_content)

ReasoningOnly(line) ==
    HasDelta(line) /\ Truthy(reasoningOf(line)) /\ ~Truthy(contentOf(line))
ContentOnly(line) ==
    HasDelta(line) /\ Truthy(contentOf(line)) /\ ~Truthy(reasoningOf(line))

\* The writes that came from line i of the trail.
WritesOf(r, i) == SelectSeq(written[r], LAMBDA w : w.src = i)

----------------------------------------------------------------------------
\* C1: whatever the partition of the delivered bytes into chunks, the text
\* written to the client and reasoningStarted are those of the same bytes
\* delivered as one chunk.
C1_ChunkIndependence ==
    \A r \in Requests : Streaming(r) =>
        /\ Output(written[r]) = Output(Whole(r).written)
        /\ reasoningStarted[r] = Whole(r).rs

\* C2: with display disabled no frame written to the client contains a
\* reasoning_content field.
C2_NoReasoningInOutput ==
    \A r \in Requests : (Streaming(r) /\ ~SHOW_REASONING) =>
        \A k \in 1..Len(written[r]) : ~includes(written[r][k].text, <<K_reasoning>>)

\* C3: with display enabled, when the events of the stream so far are n >= 1
\* reasoning-only deltas r1..rn followed by one content-only delta c, there
\* are n+1 output events, their content fields concatenate to
\* "<think>\n" r1...rn "</think>\n\n" c, the opening marker is in the first
\* event only and the closing marker in the last only.
C3_Events(r) == Where(trail[r], LAMBDA t : isDataLine(t.line))

C3_Case(r) ==
    LET ev == C3_Events(r)
    IN  /\ Streaming(r) /\ SHOW_REASONING
        /\ Len(ev) >= 2
        /\ \A k \in 1..(Len(ev) - 1) : ReasoningOnly(trail[r][ev[k]].line)
        /\ ContentOnly(trail[r][ev[Len(ev)]].line)

C3_ReasoningThenContent ==
    \A r \in Requests : C3_Case(r) =>
        LET ev == C3_Events(r)
            n == Len(ev) - 1
            rs == Flatten([k \in 1..n |-> reasoningOf(trail[r][ev[k]].line).v])
            c == contentOf(trail[r][ev[n + 1]].line).v
            out == [k \in 1..Len(written[r]) |->
                        Get(firstDelta(FrameEvent(written[r][k].text)), K_content)]
        IN  /\ Len(written[r]) = n + 1
            /\ \A k \in 1..(n + 1) : out[k].t = "str"
            /\ Flatten([k \in 1..(n + 1) |-> out[k].v])
                  = <<THINK_OPEN, LF>> \o rs \o <<THINK_CLOSE, LF, LF>> \o c
            /\ \A k \in 2..(n + 1) : ~includes(out[k].v, <<THINK_OPEN>>)
            /\ \A k \in 1..n : ~includes(out[k].v, <<THINK_CLOSE>>)

C3_Witness == \E r \in Requests : C3_Case(r) /\ Len(C3_Events(r)) = 3

\* C4: with display enabled every parsed event that carries a delta is
\* written back with the delta's reasoning_content field removed.
C4_ShowRemovesReasoning ==
    \A r \in Requests : (Streaming(r) /\ SHOW_REASONING) =>
        \A i \in 1..Len(trail[r]) : HasDelta(trail[r][i].line) =>
            \A k \in 1..Len(written[r]) : written[r][k].src = i =>
                ~HasKey(firstDelta(FrameEvent(written[r][k].text)), K_reasoning)

C6_OneWritePerDataLine ==
    \A r \in Requests : Streaming(r) =>
        /\ Len(trail[r]) = Len(InLines(r))
        /\ \A i \in 1..Len(trail[r]) :
              Plain(trail[r][i].line) = Plain(InLines(r)[i])
        /\ [k \in 1..Len(written[r]) |-> written[r][k].src]
              = Where(InLines(r), LAMBDA l : l # <<>> /\ Head(l) = DATA)

C6_Witness ==
    \E r \in Requests :
        /\ Streaming(r)
        /\ Len(written[r]) >= 2
        /\ \E i \in 1..Len(InLines(r)) :
              /\ includes(InLines(r)[i], <<DATA>>) /\ Head(InLines(r)[i]) # DATA
              /\ \E k \in 1..Len(written[r]) : written[r][k].src > i

\* C7: a "data: " line whose payload is not a JSON event is written once,
\* as it is; reasoningStarted is left as it was, the carryover buffer is the
\* unfinished last line as ever, and the other lines are processed as if
\* the malformed line had not been there.
C7_WithoutLine(r, i) ==
    [k \in 1..(Len(trail[r]) - 1) |->
        IF k < i THEN trail[r][k].line ELSE trail[r][k + 1].line]

C7_FailOpen ==
    \A r \in Requests : Streaming(r) =>
        /\ Plain(buffer[r]) = Plain(Last(split(Delivered(r))))
        /\ \A i \in 1..Len(trail[r]) : IsMalformed(trail[r][i].line) =>
              /\ Texts(WritesOf(r, i)) = <<trail[r][i].line \o <<LF>>>>
              /\ trail[r][i].after = trail[r][i].before
              /\ LET rest == forEach(C7_WithoutLine(r, i), 1, FALSE, <<>>, <<>>,
                                     SHOW_REASONING)
                 IN  /\ Texts(rest.written)
                           = Texts(SelectSeq(written[r], LAMBDA w : w.src # i))
                     /\ rest.rs = reasoningStarted[r]

C7_Witness ==
    \E r \in Requests :
        /\ Streaming(r) /\ SHOW_REASONING
        /\ \E i \in 1..Len(trail[r]) :
              /\ IsMalformed(trail[r][i].line)
              /\ trail[r][i].before
              /\ \E j \in (i + 1)..Len(trail[r]) :
                    /\ ContentOnly(trail[r][j].line)
                    /\ Len(WritesOf(r, j)) = 1

\* C8: every line relayed to the client is written as "data: <payload>"
\* followed by a blank line, and the sentinel line's text is forwarded as
\* it came.
C8_Framing ==
    \A r \in Requests : Streaming(r) =>
        \A k \in 1..Len(written[r]) :
            LET text == written[r][k].text
                line == trail[r][written[r][k].src].line
            IN  /\ isDataLine(text)
                /\ Len(text) >= 3
                /\ SubSeq(text, Len(text) - 1, Len(text)) = <<LF, LF>>
                /\ isDone(line) => startsWith(text, line)

\* C9: for an inbound identifier that is a key of MODEL_MAPPING the mapped
\* identifier is used and no probe is made: the primary call is the only
\* backend call of the request.
Chat(r) ==
    /\ method[r] = "POST"
    /\ isChat(pathOf(url[r]))
    /\ ~isHealth(pathOf(url[r])) /\ ~isModels(pathOf(url[r]))

C9_MappedNoProbe ==
    \A r \in Requests : body[r].model \in DOMAIN MODEL_MAPPING =>
        /\ probe[r] = <<>>
        /\ \A k \in 1..Len(calls[r]) : calls[r][k].kind # "probe"
        /\ (Chat(r) /\ pc[r] # "start") =>
              /\ nimModel[r] = MODEL_MAPPING[body[r].model]
              /\ calls[r] = <<Call("primary", MODEL_MAPPING[body[r].model], body[r].stream)>>

C9_Witness ==
    \E r \in Requests :
        /\ body[r].model \in DOMAIN MODEL_MAPPING
        /\ Chat(r) /\ pc[r] = "done"
        /\ Len(calls[r]) = 1

\* C10 as stated: absent from the mapping and the probe failing, the large
\* tier when the name contains "405b", the medium tier when it contains
\* "70b" only, the small tier when it contains neither.
ProbeFailed(r) ==
    /\ body[r].model # undefined
    /\ body[r].model \notin DOMAIN MODEL_MAPPING
    /\ Len(probe[r]) = 1
    /\ ~(probe[r][1] >= 200 /\ probe[r][1] < 300)

C10_TierAsClaimed ==
    \A r \in Requests : ProbeFailed(r) =>
        nimModel[r] = IF includes(body[r].model, s_405b) THEN LargeTier
                      ELSE IF includes(body[r].model, s_70b) THEN MediumTier
                      ELSE SmallTier

\* C10 as amended: absent from the mapping and the probe failing, the
\* lower-cased name is matched against the tiers in order: the large tier
\* when it contains "gpt-4", "claude-opus" or "405b"; else the medium tier
\* when it contains "claude", "gemini" or "70b"; else the small tier.
C10_Large(m) == \E sub \in {s_gpt4, s_claudeopus, s_405b} : includes(toLowerCase(m), sub)
C10_Medium(m) == \E sub \in {s_claude, s_gemini, s_70b} : includes(toLowerCase(m), sub)

C10_Tier ==
    \A r \in Requests : ProbeFailed(r) =>
        /\ C10_Large(body[r].model) => nimModel[r] = LargeTier
        /\ (~C10_Large(body[r].model) /\ C10_Medium(body[r].model)) => nimModel[r] = MediumTier
        /\ (~C10_Large(body[r].model) /\ ~C10_Medium(body[r].model)) => nimModel[r] = SmallTier

C10_Witness ==
    \E r \in Requests :
        /\ ProbeFailed(r)
        /\ C10_Large(body[r].model) /\ C10_Medium(body[r].model)
        /\ ~includes(body[r].model, s_405b)
        /\ nimModel[r] = LargeTier
        /\ pc[r] = "done"
----------------------------------------------------------------------------
\* C11: for an identifier absent from the mapping a probe outcome never
\* reaches the caller: after a 2xx probe the requested identifier is used as
\* it is, after any other outcome one of the tier defaults, no response is
\* sent on account of the probe, and the request goes on to exactly one
\* primary call that carries that one backend identifier.
C11_Absent(r) ==
    /\ Chat(r)
    /\ body[r].present
    /\ body[r].model # undefined
    /\ body[r].model \notin DOMAIN MODEL_MAPPING

C11_Adopted(r) == Len(probe[r]) = 1 /\ probe[r][1] >= 200 /\ probe[r][1] < 300

C11_ProbeNeverSurfaces ==
    \A r \in Requests : C11_Absent(r) =>
        /\ pc[r] \in {"probe", "primary"} => sent[r] = <<>>
        /\ pc[r] \in {"primary", "streaming", "done"} =>
              /\ IF C11_Adopted(r) THEN nimModel[r] = body[r].model
                 ELSE nimModel[r] \in {LargeTier, MediumTier, SmallTier}
              /\ SelectSeq(calls[r], LAMBDA c : c.kind = "primary")
                    = <<Call("primary", nimModel[r], body[r].stream)>>
              /\ Len(nimRequest[r]) = 1
              /\ nimRequest[r][1].model = nimModel[r]

\* C12 as stated: in every chat-completion request there is at most one
\* probe call and exactly one primary call, the probe has settled before the
\* primary call is made, and a request routed to health, the model list,
\* OPTIONS or the 404 makes no call.
C12_Count(r, kind) == Len(SelectSeq(calls[r], LAMBDA c : c.kind = kind))

C12_Elsewhere(r) ==
    \/ method[r] # "POST"
    \/ url[r] \in {p_health, p_api, p_api \o p_root, p_root, p_models, p_nope}

C12_Order(r) ==
    /\ C12_Count(r, "probe") <= 1
    /\ C12_Count(r, "primary") <= 1
    /\ Len(probe[r]) <= C12_Count(r, "probe")
    /\ \A i \in 1..Len(calls[r]) : calls[r][i].kind = "primary" =>
          /\ i = Len(calls[r])
          /\ Len(probe[r]) = i - 1
    /\ Len(response[r]) <= C12_Count(r, "primary")
    /\ C12_Elsewhere(r) => calls[r] = <<>>

C12_ExactlyOnce ==
    \A r \in Requests :
        /\ C12_Order(r)
        /\ (Chat(r) /\ pc[r] \in {"streaming", "done"}) => C12_Count(r, "primary") = 1

\* C12 as amended: at most one probe call and at most one primary call, the
\* probe settled before the primary call is made, no call for a request
\* routed elsewhere; a chat request that has a model makes exactly one
\* primary call, one with no body makes no call, and one with a body but no
\* model makes the probe call only.
C12_CallProtocol ==
    \A r \in Requests :
        /\ C12_Order(r)
        /\ (Chat(r) /\ pc[r] \in {"streaming", "done"}) =>
              /\ (body[r].present /\ body[r].model # undefined) => C12_Count(r, "primary") = 1
              /\ ~body[r].present => calls[r] = <<>>
              /\ (body[r].present /\ body[r].model = undefined) =>
                    calls[r] = <<Call("probe", undefined, FALSE)>>

C12_Witness ==
    \E r \in Requests :
        /\ Chat(r) /\ pc[r] = "done"
        /\ Len(calls[r]) = 2
        /\ calls[r][1].kind = "probe" /\ calls[r][2].kind = "primary"
        /\ Len(probe[r]) = 1 /\ Len(response[r]) = 1

\* C13: every response the handler sends, the 200 of an OPTIONS preflight
\* and the 404 and 500 envelopes included, carries the three CORS headers.
C13_CorsOnEveryResponse ==
    \A r \in Requests : (sent[r] # <<>> \/ Streaming(r)) => corsHeaders \subseteq headers[r]

\* C14: the dispatch table.  GET /health and GET / give the 200 health
\* object, GET /v1/models the 200 list, POST /v1/chat/completions is a chat
\* completion, OPTIONS gives 200, and GET /nope, a non-GET request to the
\* health or models path and a non-POST request to the chat path give the
\* 404 envelope with code 404 and the path in its message.
C14_Is(r, code, kind) ==
    Len(sent[r]) = 1 /\ status[r] = code /\ sent[r][1].kind = kind

C14_Is404(r) ==
    /\ C14_Is(r, 404, "error")
    /\ sent[r][1].code = 404
    /\ includes(sent[r][1].message, pathOf(url[r]))

C14_DispatchTable ==
    \A r \in Requests : pc[r] = "done" =>
        /\ method[r] = "OPTIONS" => C14_Is(r, 200, "ok")
        /\ (method[r] = "GET" /\ url[r] \in {p_health, p_root}) => C14_Is(r, 200, "health")
        /\ (method[r] = "GET" /\ url[r] = p_models) => C14_Is(r, 200, "list")
        /\ (method[r] = "POST" /\ url[r] = p_chat) =>
              /\ Len(sent[r]) = 1
              /\ sent[r][1].kind \in {"completion", "error"}
              /\ ~C14_Is404(r)
        /\ \/ method[r] = "GET" /\ url[r] \in {p_nope, p_chat}
           \/ method[r] = "POST" /\ url[r] \in {p_health, p_models, p_nope}
           => C14_Is404(r)

\* C20: with display enabled the opening and closing markers of the content
\* written so far alternate, starting with an opening one; there is one more
\* opening than closing marker exactly when reasoningStarted is true, and as
\* many otherwise; an event with both reasoning and content processed while
\* reasoningStarted is true gives the reasoning, the closing marker, then
\* the content, and leaves reasoningStarted false.
C20_Content(text) ==
    LET c == Get(firstDelta(FrameEvent(text)), K_content)
    IN  IF c.t = "str" THEN c.v ELSE <<>>

C20_Markers(r) ==
    SelectSeq(Flatten([k \in 1..Len(written[r]) |-> C20_Content(written[r][k].text)]),
              LAMBDA u : u \in {THINK_OPEN, THINK_CLOSE})

C20_Both(line) ==
    HasDelta(line) /\ Truthy(reasoningOf(line)) /\ Truthy(contentOf(line))

C20_MarkerBalance ==
    \A r \in Requests : (Streaming(r) /\ SHOW_REASONING) =>
        /\ LET markers == C20_Markers(r)
           IN  /\ \A i \in 1..Len(markers) :
                     markers[i] = IF i % 2 = 1 THEN THINK_OPEN ELSE THINK_CLOSE
               /\ reasoningStarted[r] <=> (Len(markers) % 2 = 1)
        /\ \A i \in 1..Len(trail[r]) :
              (trail[r][i].before /\ C20_Both(trail[r][i].line)) =>
                  /\ ~trail[r][i].after
                  /\ Len(WritesOf(r, i)) = 1
                  /\ C20_Content(WritesOf(r, i)[1].text)
                        = reasoningOf(trail[r][i].line).v
                            \o <<THINK_CLOSE, LF, LF>> \o contentOf(trail[r][i].line).v

C20_Witness ==
    \E r \in Requests :
        /\ Streaming(r) /\ SHOW_REASONING
        /\ Len(C20_Markers(r)) >= 3
        /\ reasoningStarted[r]
        /\ \E i \in 1..Len(trail[r]) : C20_Both(trail[r][i].line) /\ trail[r][i].before
\* C19: what is left in the carryover buffer when the upstream ends or
\* fails (a last line with no line feed after it, be it a whole event or
\* the sentinel) is never written; only the lines a line feed terminated
\* are processed and written.
C19_Terminated(r) ==
    LET parts == split(Delivered(r))
    IN  SubSeq(parts, 1, Len(parts) - 1)

C19_Over(r) == pc[r] = "streaming" /\ upstream[r] \in {"ended", "errored"}

C19_CarryoverDiscarded ==
    \A r \in Requests : C19_Over(r) =>
        /\ Len(trail[r]) = Len(C19_Terminated(r))
        /\ \A k \in 1..Len(written[r]) : written[r][k].src <= Len(C19_Terminated(r))
        /\ Len(written[r])
              = Len(SelectSeq(C19_Terminated(r), LAMBDA l : l # <<>> /\ Head(l) = DATA))
        /\ Texts(written[r])
              = Texts(forEach([i \in 1..Len(C19_Terminated(r)) |-> toString(C19_Terminated(r)[i])],
                              1, FALSE, <<>>, <<>>, SHOW_REASONING).written)

C19_Witness ==
    \E r \in Requests :
        /\ C19_Over(r)
        /\ upstream[r] = "ended"
        /\ isDataLine(buffer[r]) /\ isDone(buffer[r])
        /\ Len(written[r]) >= 1
\* C15: a failure while a chat request is handled (no body, no model, the
\* primary call rejected, a reply the transformer cannot walk) gives exactly
\* one response, the error envelope; its HTTP status and its error.code are
\* the backend's status when the primary call was rejected with one, and 500
\* otherwise; no success body is sent.
C15_Rejected(r) == Len(response[r]) = 1 /\ response[r][1].status # 200

C15_Failed(r) ==
    \/ ~body[r].present
    \/ body[r].model = undefined
    \/ C15_Rejected(r)
    \/ Len(response[r]) = 1 /\ Get(response[r][1].data, K_choices).t # "arr"
    \/ Len(response[r]) = 1 /\ response[r][1].data \in {R_nomessage}

C15_Expected(r) ==
    IF C15_Rejected(r) /\ response[r][1].status # NetworkError
    THEN response[r][1].status
    ELSE 500

C15_ErrorEnvelope ==
    \A r \in Requests : Chat(r) =>
        /\ pc[r] # "done" => sent[r] = <<>>
        /\ (pc[r] = "done" /\ C15_Failed(r)) =>
              /\ Len(sent[r]) = 1
              /\ sent[r][1].kind = "error"
              /\ status[r] = C15_Expected(r)
              /\ sent[r][1].code = C15_Expected(r)
        /\ (pc[r] = "done" /\ ~C15_Failed(r)) =>
              /\ Len(sent[r]) = 1
              /\ sent[r][1].kind = "completion"
              /\ status[r] = 200

C15_Witness ==
    \E r \in Requests :
        /\ Chat(r) /\ pc[r] = "done"
        /\ C15_Rejected(r) /\ response[r][1].status = 404
        /\ status[r] = 404 /\ sent[r][1].code = 404
\* C16: with display enabled, for a reply whose choice has a non-empty
\* reasoning r and a content c, the content of the non-streaming response is
\* the concatenation of the contents the stream handler writes for the
\* events [reasoning r, content c].
C16_Streamed(r, c) ==
    LET events == EventFrame(<<DeltaChoice(<<Member(K_reasoning, r)>>)>>)
                    \o EventFrame(<<DeltaChoice(<<Member(K_content, c)>>)>>)
        w == onData(Fresh, events, TRUE).written
    IN  Flatten([k \in 1..Len(w) |-> C20_Content(w[k].text)])

C16_SameMarkers ==
    \A r \in Requests :
        (/\ SHOW_REASONING /\ Chat(r) /\ pc[r] = "done"
         /\ status[r] = 200 /\ Len(response[r]) = 1) =>
            LET choices == Get(response[r][1].data, K_choices).v
            IN  \A i \in 1..Len(choices) :
                    LET message == Get(choices[i], K_message)
                    IN  (/\ Get(message, K_reasoning).t = "str"
                         /\ Truthy(Get(message, K_reasoning))
                         /\ Get(message, K_content).t = "str") =>
                            sent[r][1].data[i].v
                              = C16_Streamed(Get(message, K_reasoning), Get(message, K_content))
\* C17: the backend request carries the temperature and the max_tokens the
\* inbound request gave, whatever the value, 0 included; the default only
\* when the field is not given; messages as they came; model the resolved
\* identifier.
C17_FieldMapping ==
    \A r \in Requests : Len(nimRequest[r]) = 1 =>
        /\ nimRequest[r][1].temperature
              = IF body[r].temperature # Undef THEN body[r].temperature ELSE DefaultTemperature
        /\ nimRequest[r][1].max_tokens
              = IF body[r].max_tokens # Undef THEN body[r].max_tokens ELSE DefaultMaxTokens
        /\ nimRequest[r][1].messages = body[r].messages
        /\ nimRequest[r][1].model = nimModel[r]
\* C18: with two streams active and their data, end and error events
\* interleaved in any order, what each request has written, its
\* reasoningStarted, its carryover buffer and its termination are those of
\* its own bytes alone.
C18_Isolation ==
    \A r \in Requests : Streaming(r) =>
        /\ Texts(written[r]) = Texts(Whole(r).written)
        /\ reasoningStarted[r] = Whole(r).rs
        /\ buffer[r] = Whole(r).buffer
        /\ endCalls[r] = IF upstream[r] \in {"ended", "errored"} THEN 1 ELSE 0

C18_Witness ==
    /\ Cardinality(Requests) = 2
    /\ \A r \in Requests : Streaming(r) /\ pos[r] > 0
    /\ SHOW_REASONING
    /\ reasoningStarted[1] /\ ~reasoningStarted[2]
    /\ Len(written[1]) >= 2 /\ Len(written[2]) >= 1
    /\ buffer[1] # buffer[2]
    /\ upstream[1] = "flowing" /\ upstream[2] = "errored"
====
